---- MODULE Spec2Model ----
(***************************************************************************)
(* LogPose / atlas_worker: the ARGO float ingestion worker.                *)
(*                                                                         *)
(*   SpecSync   ArgoSyncWorker.syncAll / update over the manifest file     *)
(*   SpecMany   ArgoSyncWorker._sync_floats_concurrent on a given input    *)
(*   SpecFetch  ArgoSyncWorker.sync, the four file requests of one float   *)
(*   SpecSave   SpecSync with the process allowed to die at any step       *)
(*   SpecRun    main.sync, the process/upload phase over PgClient          *)
(*   SpecWeekly main.sync taking its work set from the sync worker         *)
(*   SpecShared two invocations of syncAll/update on one manifest path     *)
(*   SpecManyLive  SpecMany with the scheduling that makes it terminate    *)
(*   SpecStatus, SpecClassify, SpecBattery, SpecConvert, SpecMeta,         *)
(*   SpecUpsert    one call of a function of the processing code           *)
(***************************************************************************)
EXTENDS Integers, Sequences, FiniteSets, TLC

(* ------------------------------ bounds --------------------------------- *)
\* Float identifiers a remote index can list (SpecSync, SpecSave).
NumFloats == 2
\* Inputs of syncMany up to this size are taken with every outcome of
\* every fetch.
SmallMany == 3
\* How far the large inputs of syncMany and the work set of a batch run go
\* past the concurrency cap and the commit period.
Extra == 1
\* Work sets of a batch run up to this size are taken with every outcome of
\* every float.
SmallWork == 3
\* Failed downloads a batch run's download phase reports.
MaxDownloadFailed == 1
\* Parameters a metadata file lists at most.
MaxParams == 4
\* The voltage readings given to the battery estimate, in hundredths of a
\* volt, and the largest cycle number.
MinCentiVolt == 900
MaxCentiVolt == 3000
MaxCycle == 300
\* The profile file given to the converter: profiles, depth levels, and
\* pressure cells without a value.
MaxProf == 2
MaxLevels == 5
MaxInvalid == 2
\* Oldest latest profile given to determine_float_status, in days.
MaxAgeDays == 600
\* Optional fields of an extraction that hold None at most.
MaxAbsent == 1

(* --------------------------- program constants ------------------------- *)
MAX_CONCURRENT_DOWNLOADS == 10

(* ------------------------------ variables ------------------------------ *)
VARIABLES
    disk,            \* sync_manifest.json: [exists, text]
    pc,              \* position of the running syncAll/update call
    op,              \* "syncAll" | "update"
    all_floats,      \* float ids parsed from the downloaded index
    manifest,        \* the manifest dict held in memory by the call
    pending_floats,  \* all_floats - set(manifest["downloaded"])
    float_ids_list,  \* list(float_ids) inside _sync_floats_concurrent
    task,            \* float id -> state of its download_with_limit task
    successful,      \* successful list built from the gather results
    failed,          \* failed list built from the gather results
    ret,             \* what the call returned
    budget,          \* environment: how many fetches of the call may fail
    disk0,           \* history: the manifest file when the call began
    rerun,           \* history: the call repeats the call before it
    fpc,             \* position of one ArgoSyncWorker.sync call
    fileRes,         \* file -> what its _download_file met
    fret,            \* what ArgoSyncWorker.sync returned
    rpc,             \* position of one main.sync invocation
    mode,            \* "single" | "all" | "update"
    skip_download,   \* the skip_download argument
    float_ids_to_process,
    next,            \* position in float_ids_to_process of the next float
    processed_count,
    process_failed,
    download_failed,
    total_floats,
    successful_float_ids,
    failed_float_ids_list,
    store,           \* the relational store as committed
    conn,            \* the store as the open transaction of db.conn sees it
    result,          \* the ProcessResult returned
    commits,         \* history: db.conn.commit() calls of the invocation
    trail,           \* history: what happened to each float handled, in order
    devBudget,       \* environment: how many floats of the run are not plain
    hpc,             \* position of one call into the NetCDF processing code
    hargs,           \* what the call is given (arguments, file contents)
    hret,            \* what the call returned
    peer             \* a second invocation on the same manifest path, while
                     \* it does not run: its locals, and whether the
                     \* deployment serializes invocations

syncVars == <<disk, pc, op, all_floats, manifest, pending_floats,
              float_ids_list, task, successful, failed, ret, budget, disk0,
              rerun>>

fetchVars == <<fpc, fileRes, fret>>

runVars == <<rpc, mode, skip_download, float_ids_to_process, next, processed_count,
             process_failed, download_failed, total_floats, successful_float_ids,
             failed_float_ids_list, store, conn, result, commits, trail, devBudget>>

\* What the steps of the sync worker, of one fetch and of the runner leave
\* alone.
callVars == <<hpc, hargs, hret>>

peerVars == <<peer>>

notSync == <<fetchVars, runVars, callVars, peerVars>>
notFetch == <<syncVars, runVars, callVars, peerVars>>
notRun == <<syncVars, fetchVars, callVars, peerVars>>
notCall == <<syncVars, fetchVars, runVars, peerVars>>

(* ------------------------------- lists --------------------------------- *)
Range(s) == {s[i] : i \in 1..Len(s)}

NoDup(s) == \A i, j \in 1..Len(s) : i # j => s[i] # s[j]

\* list.remove(x): drops the first occurrence only.
RECURSIVE RemoveFirst(_, _)
RemoveFirst(s, x) ==
    IF s = <<>> THEN <<>>
    ELSE IF Head(s) = x THEN Tail(s)
    ELSE <<Head(s)>> \o RemoveFirst(Tail(s), x)

\* list(a_set): some order of the set's elements.
Orders(S) ==
    {s \in [1..Cardinality(S) -> S] : \A i, j \in 1..Cardinality(S) : i # j => s[i] # s[j]}

Ascending(n) == [i \in 1..n |-> i]

(* --------------------------- manifest file ----------------------------- *)
EmptyManifest == [downloaded |-> <<>>, failed |-> <<>>]

NoFile == [exists |-> FALSE, text |-> <<>>]

\* json.dump(manifest, f): the text as a sequence of tokens.
Ids(s) == [i \in 1..Len(s) |-> <<"id", s[i]>>]

Serialize(m) ==
    <<<<"{", 0>>>> \o Ids(m.downloaded) \o <<<<",", 0>>>> \o Ids(m.failed) \o <<<<"}", 0>>>>

\* json.load(f): the manifest of a complete text, JSONDecodeError otherwise.
SepAt(t) == {i \in 1..Len(t) : t[i][1] = ","}

WellFormed(t) ==
    /\ Len(t) >= 3
    /\ t[1][1] = "{"
    /\ t[Len(t)][1] = "}"
    /\ Cardinality(SepAt(t)) = 1
    /\ \A i \in 2..(Len(t) - 1) : t[i][1] \in {"id", ","}

Parse(t) ==
    LET k == CHOOSE i \in SepAt(t) : TRUE
    IN  [downloaded |-> [i \in 1..(k - 2) |-> t[i + 1][2]],
         failed     |-> [i \in 1..(Len(t) - k - 1) |-> t[k + i][2]]]

\* _load_manifest: the default when no file exists; ok = FALSE when
\* json.load raises.
LoadManifest(d) ==
    IF ~d.exists THEN [ok |-> TRUE, m |-> EmptyManifest]
    ELSE IF WellFormed(d.text) THEN [ok |-> TRUE, m |-> Parse(d.text)]
    ELSE [ok |-> FALSE, m |-> EmptyManifest]

(* ------------------------- fetch of one float -------------------------- *)
Files == {"meta", "tech", "prof", "Rtraj"}

\* What _download_file can meet: the file, a 404, another HTTP status, or
\* any other exception (transport, timeout, write error).
FileOutcomes == {"ok", "404", "http_error", "error"}

\* _download_file returns True only when the body was written.
DownloadFile(o) == o = "ok"

success_count(res) == Cardinality({f \in Files : DownloadFile(res[f])})

\* sync: success_count >= 1.
SyncReturnMutant(res) == success_count(res) >= Cardinality(Files)
SyncReturn(res) == success_count(res) >= 1

\* The values ArgoSyncWorker.sync can return over every result of the four
\* requests.
SyncReturns == {SyncReturn(res) : res \in [Files -> FileOutcomes]}

(* ------------------------------ syncMany ------------------------------- *)
\* A task of download_with_limit: waiting for the semaphore, running
\* self.sync, returned (fid, True), returned (fid, False), returned
\* (fid, False) from the except clause, or ended with an exception that is
\* no Exception, which gather hands back as the task's result.
TaskStates == {"waiting", "running", "ret_true", "ret_false", "caught", "escaped"}
FaultStates == {"ret_false", "caught", "escaped"}

Inputs == Range(float_ids_list)
Running == {f \in Inputs : task[f] = "running"}
Faulty == {f \in Inputs : task[f] \in FaultStates}
AllTasksDoneMutant == \A f \in Inputs : task[f] \in {"ret_true", "ret_false", "caught"}
AllTasksDone == \A f \in Inputs : task[f] \notin {"waiting", "running"}

\* asyncio.Semaphore(MAX_CONCURRENT_DOWNLOADS): a slot is free.
SlotFreeMutant == Cardinality(Running) <= MAX_CONCURRENT_DOWNLOADS
SlotFree == Cardinality(Running) < MAX_CONCURRENT_DOWNLOADS

\* The semaphore wakes its waiters in the order they arrived, the order of
\* float_ids_list.
Waiting == {i \in 1..Len(float_ids_list) : task[float_ids_list[i]] = "waiting"}
NextWaiter == float_ids_list[CHOOSE i \in Waiting : \A j \in Waiting : i <= j]

\* async with semaphore: the next task takes a slot and calls self.sync.
Acquire ==
    /\ pc = "gather"
    /\ Waiting # {}
    /\ SlotFree
    /\ task' = [task EXCEPT ![NextWaiter] = "running"]
    /\ UNCHANGED <<disk, pc, op, all_floats, manifest, pending_floats,
                   float_ids_list, successful, failed, ret, budget, disk0, rerun, notSync>>

\* self.sync(float_id) returns; the slot is released on the way out.
FetchReturns(f) ==
    /\ pc = "gather"
    /\ task[f] = "running"
    /\ \E r \in SyncReturns :
          /\ (~r) => Cardinality(Faulty) < budget
          /\ task' = [task EXCEPT ![f] = IF r THEN "ret_true" ELSE "ret_false"]
    /\ UNCHANGED <<disk, pc, op, all_floats, manifest, pending_floats,
                   float_ids_list, successful, failed, ret, budget, disk0, rerun, notSync>>

\* self.sync(float_id) raises: an Exception is caught and becomes
\* (fid, False); any other BaseException leaves the task and is kept by
\* gather(return_exceptions=True). The slot is released in both cases.
FetchRaises(f) ==
    /\ pc = "gather"
    /\ task[f] = "running"
    /\ Cardinality(Faulty) < budget
    /\ \E how \in {"caught", "escaped"} : task' = [task EXCEPT ![f] = how]
    /\ UNCHANGED <<disk, pc, op, all_floats, manifest, pending_floats,
                   float_ids_list, successful, failed, ret, budget, disk0, rerun, notSync>>

\* for fid, result in zip(float_ids_list, results): the two lists.
RECURSIVE CollectMutant(_, _, _)
CollectMutant(ids, t, want) ==
    IF ids = <<>> THEN <<>>
    ELSE IF t[Head(ids)] \in {"caught", "escaped"} THEN
        (IF want THEN <<>> ELSE ids)
    ELSE IF (t[Head(ids)] = "ret_true") = want
         THEN <<Head(ids)>> \o CollectMutant(Tail(ids), t, want)
         ELSE CollectMutant(Tail(ids), t, want)

RECURSIVE Collect(_, _, _)
Collect(ids, t, want) ==
    IF ids = <<>> THEN <<>>
    ELSE IF (t[Head(ids)] = "ret_true") = want
         THEN <<Head(ids)>> \o Collect(Tail(ids), t, want)
         ELSE Collect(Tail(ids), t, want)

\* gather returns once every task has ended.
GatherReturns ==
    /\ pc = "gather"
    /\ AllTasksDone
    /\ successful' = Collect(float_ids_list, task, TRUE)
    /\ failed' = Collect(float_ids_list, task, FALSE)
    /\ pc' = "collected"
    /\ UNCHANGED <<disk, op, all_floats, manifest, pending_floats,
                   float_ids_list, task, ret, budget, disk0, rerun, notSync>>

(* --------------------------- syncAll / update -------------------------- *)
Ops == {"syncAll", "update"}
Floats == 1..NumFloats

NoReturn == [kind |-> "none", total |-> 0, downloaded |-> 0, new |-> 0, failed |-> 0]
Raised == [kind |-> "raised", total |-> 0, downloaded |-> 0, new |-> 0, failed |-> 0]
Summary(t, d, n, f) ==
    [kind |-> "summary", total |-> t, downloaded |-> d, new |-> n, failed |-> f]

\* pending_floats = all_floats - already_downloaded
PendingMutant(index, m) == index
PendingSkipsFailed(index, m) == index \ (Range(m.downloaded) \cup Range(m.failed))
Pending(index, m) == index \ Range(m.downloaded)

\* for float_id in successful_floats: append to downloaded, and remove from
\* failed when it is there.
RECURSIVE MergeSuccessfulMutant(_, _)
MergeSuccessfulMutant(m, succ) ==
    IF succ = <<>> THEN m
    ELSE MergeSuccessfulMutant(
             [m EXCEPT !.downloaded = Append(@, Head(succ))], Tail(succ))

MergeSuccessfulClears(m, succ) ==
    [downloaded |-> m.downloaded \o succ, failed |-> <<>>]

RECURSIVE MergeSuccessful(_, _)
MergeSuccessful(m, succ) ==
    IF succ = <<>> THEN m
    ELSE MergeSuccessful(
             [downloaded |-> Append(m.downloaded, Head(succ)),
              failed     |-> IF Head(succ) \in Range(m.failed)
                             THEN RemoveFirst(m.failed, Head(succ))
                             ELSE m.failed],
             Tail(succ))

\* for float_id in failed_floats: append to failed unless it is there.
RECURSIVE MergeFailedMutant(_, _)
MergeFailedMutant(m, fl) ==
    IF fl = <<>> THEN m
    ELSE MergeFailedMutant([m EXCEPT !.failed = Append(@, Head(fl))], Tail(fl))

RECURSIVE MergeFailed(_, _)
MergeFailed(m, fl) ==
    IF fl = <<>> THEN m
    ELSE MergeFailed(
             [m EXCEPT !.failed = IF Head(fl) \in Range(@) THEN @ ELSE Append(@, Head(fl))],
             Tail(fl))

MergeManifestMutant(m, succ, fl) == MergeFailed(MergeSuccessful(EmptyManifest, succ), fl)
MergeManifest(m, succ, fl) == MergeFailed(MergeSuccessful(m, succ), fl)

\* syncAll() or update() is called: the index download is awaited. The
\* call repeats the one before it when that one returned a summary, was the
\* same operation and (IndexArrives) read the same index; all_floats holds
\* the earlier index until the new one arrives.
StartSync(k) ==
    /\ pc \in {"idle", "done"}
    /\ pc' = "index"
    /\ op' = k
    /\ rerun' = (pc = "done" /\ ret.kind = "summary" /\ op = k)
    /\ disk0' = disk
    /\ manifest' = EmptyManifest
    /\ pending_floats' = {}
    /\ float_ids_list' = <<>>
    /\ task' = <<>>
    /\ successful' = <<>>
    /\ failed' = <<>>
    /\ ret' = NoReturn
    /\ budget' = 0
    /\ UNCHANGED <<disk, all_floats, notSync>>

\* _download_index raises (transport error, raise_for_status): the call
\* ends with that exception, before the manifest is read.
IndexFails ==
    /\ pc = "index"
    /\ pc' = "done"
    /\ ret' = Raised
    /\ rerun' = FALSE
    /\ UNCHANGED <<disk, op, all_floats, manifest, pending_floats, float_ids_list,
                   task, successful, failed, budget, disk0, notSync>>

\* The index arrives and is parsed; the manifest is loaded and the pending
\* floats are computed. update() returns zeros on an empty index; both
\* return at once when nothing is pending; otherwise
\* _sync_floats_concurrent starts one task per pending float.
IndexArrives(index) ==
    /\ pc = "index"
    /\ all_floats' = index
    /\ rerun' = (rerun /\ index = all_floats)
    /\ LET l == LoadManifest(disk)
           p == Pending(index, l.m)
       IN  IF op = "update" /\ index = {} THEN
               /\ ret' = Summary(0, 0, 0, 0)
               /\ pc' = "done"
               /\ UNCHANGED <<manifest, pending_floats, float_ids_list, task, budget>>
           ELSE IF ~l.ok THEN
               /\ ret' = Raised
               /\ pc' = "done"
               /\ UNCHANGED <<manifest, pending_floats, float_ids_list, task, budget>>
           ELSE IF p = {} THEN
               /\ manifest' = l.m
               /\ pending_floats' = p
               /\ ret' = Summary(Cardinality(index),
                                 Cardinality(Range(l.m.downloaded)), 0, 0)
               /\ pc' = "done"
               /\ UNCHANGED <<float_ids_list, task, budget>>
           ELSE
               /\ manifest' = l.m
               /\ pending_floats' = p
               /\ \E order \in Orders(p) :
                     /\ float_ids_list' = order
                     /\ task' = [f \in p |-> "waiting"]
               /\ budget' = Cardinality(p)
               /\ pc' = "gather"
               /\ UNCHANGED ret
    /\ UNCHANGED <<disk, op, successful, failed, disk0, notSync>>

\* The manifest dict is updated from the two lists.
Merge ==
    /\ pc = "collected"
    /\ manifest' = MergeManifest(manifest, successful, failed)
    /\ pc' = "save_open"
    /\ UNCHANGED <<disk, op, all_floats, pending_floats, float_ids_list, task,
                   successful, failed, ret, budget, disk0, rerun, notSync>>

\* _save_manifest, open(self.manifest_path, "w"): the file is created or
\* truncated in place.
SaveOpen ==
    /\ pc = "save_open"
    /\ disk' = [exists |-> TRUE, text |-> <<>>]
    /\ pc' = "save_write"
    /\ UNCHANGED <<op, all_floats, manifest, pending_floats, float_ids_list, task,
                   successful, failed, ret, budget, disk0, rerun, notSync>>

\* json.dump writes the text piece by piece into the open file.
SaveWrite ==
    /\ pc = "save_write"
    /\ Len(disk.text) < Len(Serialize(manifest))
    /\ disk' = [disk EXCEPT !.text = Append(@, Serialize(manifest)[Len(@) + 1])]
    /\ UNCHANGED <<pc, op, all_floats, manifest, pending_floats, float_ids_list, task,
                   successful, failed, ret, budget, disk0, rerun, notSync>>

\* The file is closed and the call returns its summary.
SaveClose ==
    /\ pc = "save_write"
    /\ Len(disk.text) = Len(Serialize(manifest))
    /\ ret' = Summary(Cardinality(all_floats), Len(manifest.downloaded),
                      Len(successful), Len(failed))
    /\ pc' = "done"
    /\ UNCHANGED <<disk, op, all_floats, manifest, pending_floats, float_ids_list, task,
                   successful, failed, budget, disk0, rerun, notSync>>

(* ------------------ ArgoSyncWorker.sync, step by step ------------------ *)
\* sync(float_id) is called: the staging directory is made and the four
\* requests are started together.
FetchCall ==
    /\ fpc = "call"
    /\ fpc' = "requests"
    /\ UNCHANGED <<fileRes, fret, notFetch>>

\* float_dir.mkdir or the client's construction raises: sync raises.
FetchCallRaises ==
    /\ fpc = "call"
    /\ fpc' = "raised"
    /\ UNCHANGED <<fileRes, fret, notFetch>>

\* One _download_file ends, in any order with the other three; whatever it
\* met is turned into its own True or False.
FileDone(file, o) ==
    /\ fpc = "requests"
    /\ fileRes[file] = "pending"
    /\ fileRes' = [fileRes EXCEPT ![file] = o]
    /\ UNCHANGED <<fpc, fret, notFetch>>

\* gather has the four results: return success_count >= 1.
FetchReturn ==
    /\ fpc = "requests"
    /\ \A file \in Files : fileRes[file] # "pending"
    /\ fret' = SyncReturn(fileRes)
    /\ fpc' = "returned"
    /\ UNCHANGED <<fileRes, notFetch>>

(* ------------------------ the process can die -------------------------- *)
Crashed == [kind |-> "crashed", total |-> 0, downloaded |-> 0, new |-> 0, failed |-> 0]

\* The process is killed while a call is under way; the file keeps what had
\* reached it.
Crash ==
    /\ pc \notin {"idle", "done"}
    /\ pc' = "done"
    /\ ret' = Crashed
    /\ rerun' = FALSE
    /\ UNCHANGED <<disk, op, all_floats, manifest, pending_floats, float_ids_list,
                   task, successful, failed, budget, disk0, notSync>>

(* ------------------- two invocations, one manifest path ---------------- *)
\* The locals of an invocation of syncAll/update: everything it holds but
\* the manifest file, which both invocations read and write.
Locals ==
    [pc |-> pc, op |-> op, all_floats |-> all_floats, manifest |-> manifest,
     pending_floats |-> pending_floats, float_ids_list |-> float_ids_list,
     task |-> task, successful |-> successful, failed |-> failed, ret |-> ret,
     budget |-> budget, disk0 |-> disk0, rerun |-> rerun]

IdleLocals ==
    [pc |-> "idle", op |-> "syncAll", all_floats |-> {}, manifest |-> EmptyManifest,
     pending_floats |-> {}, float_ids_list |-> <<>>, task |-> <<>>,
     successful |-> <<>>, failed |-> <<>>, ret |-> NoReturn, budget |-> 0,
     disk0 |-> NoFile, rerun |-> FALSE]

NoPeer == [locals |-> IdleLocals, serial |-> TRUE]

\* The scheduler lets the other invocation run: where the deployment
\* serializes invocations, only while this one is not inside a call;
\* otherwise between any two steps but those of _save_manifest (what two
\* writers with the file open at once leave in it is not modelled).
Switch ==
    /\ IF peer.serial THEN pc \in {"idle", "done"} ELSE pc # "save_write"
    /\ peer' = [peer EXCEPT !.locals = Locals]
    /\ pc' = peer.locals.pc
    /\ op' = peer.locals.op
    /\ all_floats' = peer.locals.all_floats
    /\ manifest' = peer.locals.manifest
    /\ pending_floats' = peer.locals.pending_floats
    /\ float_ids_list' = peer.locals.float_ids_list
    /\ task' = peer.locals.task
    /\ successful' = peer.locals.successful
    /\ failed' = peer.locals.failed
    /\ ret' = peer.locals.ret
    /\ budget' = peer.locals.budget
    /\ disk0' = peer.locals.disk0
    /\ rerun' = peer.locals.rerun
    /\ UNCHANGED <<disk, fetchVars, runVars, callVars>>

(* ------------------------- the relational store ------------------------ *)
\* argo_float_metadata and argo_float_status hold one row per float_id;
\* gen tells which upsert wrote a row (0: an earlier invocation, 1: this
\* one). processing_log is a list of entries.
Row(f, g) == [float_id |-> f, gen |-> g]

EmptyStore == [meta |-> {}, status |-> {}, log |-> <<>>]

\* INSERT ... ON CONFLICT (float_id) DO UPDATE
UpsertRow(table, r) == {x \in table : x.float_id # r.float_id} \cup {r}

\* A connection with autocommit off: the tables as the open transaction
\* sees them, and whether a failed statement has aborted the transaction.
Begin(st) == [meta |-> st.meta, status |-> st.status, log |-> st.log, aborted |-> FALSE]

\* self.conn.rollback()
Rollback(st) == Begin(st)

\* What the single CTE statement of batch_upload_data can meet.
UploadOutcomes == {"ok", "meta_rejected", "status_rejected"}

\* batch_upload_data: one statement writes both rows; when any half of it
\* is rejected the statement writes nothing, the except clause rolls the
\* transaction back and False is returned.
BatchUploadMutant(c, st, f, how) ==
    IF how = "ok" THEN
        [conn    |-> [c EXCEPT !.meta = UpsertRow(@, Row(f, 1)),
                               !.status = UpsertRow(@, Row(f, 1))],
         success |-> TRUE]
    ELSE IF how = "status_rejected" THEN
        [conn    |-> [c EXCEPT !.meta = UpsertRow(@, Row(f, 1))],
         success |-> FALSE]
    ELSE
        [conn |-> Rollback(st), success |-> FALSE]

BatchUpload(c, st, f, how) ==
    IF how = "ok" THEN
        [conn    |-> [c EXCEPT !.meta = UpsertRow(@, Row(f, 1)),
                               !.status = UpsertRow(@, Row(f, 1))],
         success |-> TRUE]
    ELSE
        [conn |-> Rollback(st), success |-> FALSE]

\* log_processing: one INSERT into processing_log; a failure is logged and
\* swallowed, and leaves the transaction aborted.
LogProcessing(c, entry, ok) ==
    IF ok /\ ~c.aborted
    THEN [c EXCEPT !.log = Append(@, entry)]
    ELSE [c EXCEPT !.aborted = TRUE]

\* db.conn.commit(): the transaction's writes become the store's; COMMIT of
\* an aborted transaction is a rollback.
CommitStore(c, st) ==
    IF c.aborted THEN st
    ELSE [meta |-> c.meta, status |-> c.status, log |-> c.log]

CommitConn(c, st) == Begin(CommitStore(c, st))

(* ------------------------------ main.sync ------------------------------ *)
CommitEvery == 10

Modes == {"single", "all", "update"}
Batch(m) == m \in {"all", "update"}

\* What can happen to one float of the work set: extraction fails (an
\* "error" result, missing metadata or status, a validation error), the
\* status has no position, the upsert is rejected, or all goes well.
FloatOutcomes == {"extract_error", "no_location"} \cup UploadOutcomes
ErrorOutcomes == {"extract_error", "meta_rejected", "status_rejected"}

Operation(m) ==
    IF m = "all" THEN "SYNC_ALL" ELSE IF m = "update" THEN "WEEKLY_UPDATE" ELSE "SYNC"

LogEntry(o, st, succ, fl) ==
    [operation |-> o, status |-> st, successful_float_ids |-> succ, failed_float_ids |-> fl]

NoResult ==
    [kind |-> "none", exit |-> "none", success |-> FALSE, total |-> 0, downloaded |-> 0,
     processed |-> 0, download_failed |-> 0, process_failed |-> 0]

\* The ProcessResult of a return statement; exit names the statement.
Result(e, ok, t, d, p, df, pf) ==
    [kind |-> "result", exit |-> e, success |-> ok, total |-> t, downloaded |-> d,
     processed |-> p, download_failed |-> df, process_failed |-> pf]

\* Sizes of the manifest's downloaded list a batch run starts from: small
\* ones, any float of which may deviate, and ones around the commit period,
\* one float of which may deviate.
WorkSizes == (0..SmallWork) \cup (CommitEvery..(CommitEvery + Extra))

\* The exception of the download phase (syncAll, update or sync raising)
\* leaves main.sync.
DownloadRaises(m) ==
    /\ rpc = "start"
    /\ mode' = m
    /\ rpc' = "raised"
    /\ result' = [NoResult EXCEPT !.kind = "raised", !.exit = "download"]
    /\ UNCHANGED <<skip_download, float_ids_to_process, next, processed_count,
                   process_failed, download_failed, total_floats, successful_float_ids,
                   failed_float_ids_list, store, conn, commits, trail, devBudget, notRun>>

\* The download phase of a batch run: n floats are in the manifest's
\* downloaded list afterwards and df downloads failed; the total reported
\* is that of an index made of these floats. An empty list ends the run at
\* once.
DownloadBatch(m, skip, n, df) ==
    /\ rpc = "start"
    /\ Batch(m)
    /\ mode' = m
    /\ skip_download' = skip
    /\ float_ids_to_process' = Ascending(n)
    /\ devBudget' = IF n <= SmallWork THEN n ELSE 1
    /\ LET skipped == m = "all" /\ skip
           dfl == IF skipped THEN 0 ELSE df
       IN  /\ download_failed' = dfl
           /\ total_floats' = n + dfl
           /\ IF n = 0
              THEN /\ rpc' = "returned"
                   /\ result' = Result("empty", TRUE, 0, 0, 0, dfl, 0)
              ELSE /\ rpc' = "clients"
                   /\ UNCHANGED result
    /\ UNCHANGED <<next, processed_count, process_failed, successful_float_ids,
                   failed_float_ids_list, store, conn, commits, trail, notRun>>

\* The download phase of a batch run over the sync worker itself: the
\* syncAll() or update() call main.sync made has returned its summary (or,
\* with skip_download in a full run, no call was made); the counts are
\* taken from the summary and the work set is the downloaded list of the
\* manifest, loaded again from the file.
OpOf(m) == IF m = "all" THEN "syncAll" ELSE "update"

DownloadPhase(m, skip) ==
    /\ rpc = "start"
    /\ Batch(m)
    /\ skip => m = "all"
    /\ IF skip THEN pc \in {"idle", "done"}
               ELSE pc = "done" /\ ret.kind = "summary" /\ op = OpOf(m)
    /\ mode' = m
    /\ skip_download' = skip
    /\ LET l == LoadManifest(disk)
           work == l.m.downloaded
       IN  IF ~l.ok THEN
               /\ rpc' = "raised"
               /\ result' = [NoResult EXCEPT !.kind = "raised", !.exit = "download"]
               /\ UNCHANGED <<float_ids_to_process, download_failed, total_floats,
                              devBudget>>
           ELSE
               /\ float_ids_to_process' = work
               /\ devBudget' = Len(work)
               /\ download_failed' = IF skip THEN 0 ELSE ret.failed
               /\ total_floats' = IF skip THEN Len(work) ELSE ret.total
               /\ IF work = <<>>
                  THEN /\ rpc' = "returned"
                       /\ result' = Result("empty", TRUE, 0, 0, 0,
                                           IF skip THEN 0 ELSE ret.failed, 0)
                  ELSE /\ rpc' = "clients"
                       /\ UNCHANGED result
    /\ UNCHANGED <<next, processed_count, process_failed, successful_float_ids,
                   failed_float_ids_list, store, conn, commits, trail, notRun>>

\* The download phase of a single-float run: sync(float_id) returned got,
\* unless the download is skipped.
DownloadSingle(skip, got) ==
    /\ rpc = "start"
    /\ mode' = "single"
    /\ skip_download' = skip
    /\ devBudget' = 1
    /\ IF ~skip /\ ~got
       THEN /\ rpc' = "returned"
            /\ result' = Result("download", FALSE, 0, 0, 0, 1, 0)
            /\ UNCHANGED <<float_ids_to_process, total_floats>>
       ELSE /\ rpc' = "clients"
            /\ float_ids_to_process' = <<1>>
            /\ total_floats' = 1
            /\ UNCHANGED result
    /\ UNCHANGED <<next, processed_count, process_failed, download_failed,
                   successful_float_ids, failed_float_ids_list, store, conn, commits,
                   trail, notRun>>

\* PgClient(), S3Client() or NetCDFParserWorker() raises.
ClientsFail ==
    /\ rpc = "clients"
    /\ rpc' = "returned"
    /\ result' = Result("clients", FALSE, 0, 0, 0, 0, Len(float_ids_to_process))
    /\ UNCHANGED <<mode, skip_download, float_ids_to_process, next, processed_count,
                   process_failed, download_failed, total_floats, successful_float_ids,
                   failed_float_ids_list, store, conn, commits, trail, devBudget, notRun>>

\* The clients are made; the connection opens its transaction.
ClientsReady ==
    /\ rpc = "clients"
    /\ rpc' = "loop"
    /\ conn' = Begin(store)
    /\ UNCHANGED <<mode, skip_download, float_ids_to_process, next, processed_count,
                   process_failed, download_failed, total_floats, successful_float_ids,
                   failed_float_ids_list, store, result, commits, trail, devBudget, notRun>>

Deviations == Cardinality({i \in 1..Len(trail) : trail[i] # "ok"})

\* if not sync_all and not update: a single-float run returns on its error.
AbortsOnErrorMutant(m) == TRUE
AbortsOnError(m) == ~Batch(m)

\* if status_model.latitude is None or status_model.longitude is None: the
\* float is counted and the rest of the loop body skipped. (A position-less
\* status handed to batch_upload_data makes the point "POINT(None None)",
\* which the statement rejects.)
SkipsUploadMutant(how) == FALSE
SkipsUpload(how) == how = "no_location"

\* processed_count += 1: for a float without position before the continue,
\* for the others after the upload; never on the way through the handler.
ProcessedMutant(raised, skipped) == IF raised \/ skipped THEN 0 ELSE 1
Processed(raised, skipped) == IF raised THEN 0 ELSE 1

\* One pass of the loop body for the next float: parse, skip a float
\* without position, upsert, count; on an exception count the failure and,
\* in a single-float run, log it, commit and return; then the periodic
\* commit, which the continue of a skipped float jumps over. The upload of
\* the parquet file changes nothing here: its failure is caught and logged.
ProcessFloat(how, logOk) ==
    /\ rpc = "loop"
    /\ next <= Len(float_ids_to_process)
    /\ (how # "ok") => (Deviations < devBudget)
    /\ LET fid == float_ids_to_process[next]
           up == BatchUpload(conn, store, fid, how)
           skipped == SkipsUpload(how)
           uploads == how # "extract_error" /\ ~skipped
           raised == how = "extract_error" \/ (uploads /\ ~up.success)
           conn1 == IF uploads THEN up.conn ELSE conn
           done1 == processed_count + Processed(raised, skipped)
           fail1 == process_failed + (IF raised THEN 1 ELSE 0)
           entry == LogEntry(Operation(mode), "FAILED", <<>>, <<fid>>)
           conn2 == LogProcessing(conn1, entry, logOk)
           periodic == ~skipped /\ Batch(mode) /\ (done1 + fail1) % CommitEvery = 0
       IN  /\ trail' = Append(trail, how)
           /\ processed_count' = done1
           /\ process_failed' = fail1
           /\ successful_float_ids' =
                 IF raised \/ skipped THEN successful_float_ids
                 ELSE Append(successful_float_ids, fid)
           /\ failed_float_ids_list' =
                 IF raised THEN Append(failed_float_ids_list, fid)
                 ELSE failed_float_ids_list
           /\ IF raised /\ AbortsOnError(mode)
              THEN /\ store' = CommitStore(conn2, store)
                   /\ conn' = CommitConn(conn2, store)
                   /\ commits' = commits + 1
                   /\ result' = Result("failure", FALSE, 0, 0, 0, 0, 1)
                   /\ rpc' = "returned"
                   /\ UNCHANGED next
              ELSE /\ next' = next + 1
                   /\ store' = IF periodic THEN CommitStore(conn1, store) ELSE store
                   /\ conn' = IF periodic THEN CommitConn(conn1, store) ELSE conn1
                   /\ commits' = commits + (IF periodic THEN 1 ELSE 0)
                   /\ UNCHANGED <<rpc, result>>
    /\ UNCHANGED <<mode, skip_download, float_ids_to_process, download_failed,
                   total_floats, devBudget, notRun>>

\* status = "SUCCESS" if total_failed == 0 else "FAILED"
LogStatus(total_failed) == IF total_failed = 0 THEN "SUCCESS" ELSE "FAILED"

\* "success": processed_count > 0 or total_failed == 0
BatchSuccessMutant(processed, total_failed) == total_failed = 0
BatchSuccess(processed, total_failed) == processed > 0 \/ total_failed = 0

\* After the loop: the run is logged, the transaction committed and the
\* result returned.
Finish(logOk) ==
    /\ rpc = "loop"
    /\ next > Len(float_ids_to_process)
    /\ LET total_failed == download_failed + process_failed
           status == LogStatus(total_failed)
           entry == LogEntry(Operation(mode), status, successful_float_ids,
                             failed_float_ids_list)
           conn1 == LogProcessing(conn, entry, logOk)
       IN  /\ store' = CommitStore(conn1, store)
           /\ conn' = CommitConn(conn1, store)
           /\ commits' = commits + 1
           /\ result' =
                 IF Batch(mode)
                 THEN Result("finish", BatchSuccess(processed_count, total_failed),
                             total_floats, Len(float_ids_to_process), processed_count,
                             download_failed, process_failed)
                 ELSE Result("finish", TRUE, 0, 0, 0, 0, 0)
    /\ rpc' = "returned"
    /\ UNCHANGED <<mode, skip_download, float_ids_to_process, next, processed_count,
                   process_failed, download_failed, total_floats, successful_float_ids,
                   failed_float_ids_list, trail, devBudget, notRun>>

(* ------------------------- Helper (utils/helper.py) -------------------- *)
\* An optional value: None, or a value that is there.
None == [some |-> FALSE, val |-> 0]
Some(v) == [some |-> TRUE, val |-> v]

IdleCall ==
    /\ hpc = "off"
    /\ hargs = None
    /\ hret = None

\* A call returns r.
Return(r) ==
    /\ hpc = "call"
    /\ hpc' = "returned"
    /\ hret' = r
    /\ UNCHANGED <<hargs, notCall>>

\* END_MISSION_DATE as the metadata file holds it: no such variable, bytes
\* that are empty or spaces, or bytes with a date in them.
EndDates == {"absent", "blank", "set"}

\* Ages of the latest profile are counted in parts of a day, so that the
\* whole days of a timedelta can be taken.
PartsPerDay == 2

\* timedelta.days: the whole days, rounded down (also for a profile time
\* ahead of now).
Days(age) == age \div PartsPerDay

ACTIVE_DAYS == 45
INACTIVE_DAYS == 540

determine_float_statusMutant(end, t) ==
    IF t.some THEN
        IF Days(t.val) < ACTIVE_DAYS THEN "ACTIVE"
        ELSE IF Days(t.val) < INACTIVE_DAYS THEN "INACTIVE"
        ELSE "DEAD"
    ELSE IF end = "set" THEN "INACTIVE"
    ELSE "UNKNOWN"

\* determine_float_status(ds, recent_profile_time), end being the
\* END_MISSION_DATE of ds and t the age of recent_profile_time, if any.
determine_float_status(end, t) ==
    IF end = "set" THEN "INACTIVE"
    ELSE IF t.some THEN
        IF Days(t.val) < ACTIVE_DAYS THEN "ACTIVE"
        ELSE IF Days(t.val) < INACTIVE_DAYS THEN "INACTIVE"
        ELSE "DEAD"
    ELSE "UNKNOWN"

DetermineStatus == Return(determine_float_status(hargs.end, hargs.age))

\* Names (parameters, sensors, platform families) are sequences of pieces
\* of text, so that "x in name" can be asked of a piece: "FLOAT_DEEP" is
\* <<"FLOAT_", "DEEP">>. The names are taken as decoded, stripped and
\* lower-cased (upper-cased for the family) by the code.
Contains(name, piece) == \E i \in 1..Len(name) : name[i] = piece

\* PARAMETER entries a metadata file can list (each parameter once).
ParamNames ==
    {<<"pres">>, <<"temp">>, <<"psal">>, <<"cndc">>, <<"doxy">>, <<"doxy2">>,
     <<"doxy3">>, <<"chla">>, <<"chlorophyll", "_a">>, <<"bbp700">>, <<"nitrate">>,
     <<"ph_in_situ_total">>, <<"cdom">>}

\* SENSOR entries a metadata file can list.
SensorNames == {<<"ctd_pres">>, <<"opto", "de_doxy">>, <<"bio", "_optical">>}

\* PLATFORM_FAMILY values: none, and families with and without DEEP in
\* their name.
Families ==
    {<<>>, <<"FLOAT">>, <<"DEEP">>, <<"DEEP", " ", "ARVOR">>, <<"DEEP", " ", "NINJA">>,
     <<"DEEP", " ", "APEX">>, <<"FLOAT_", "DEEP">>, <<"DEEP", " ", "SOLO">>}

has_oxygen(params) == \E p \in {<<"doxy">>, <<"doxy2">>, <<"doxy3">>} : p \in params
has_optode(sensors) == \E x \in sensors : Contains(x, "opto")
has_chla(params) ==
    <<"chla">> \in params \/ \E p \in params : Contains(p, "chlorophyll")
has_backscatter(params) ==
    \E x \in {<<"bbp470">>, <<"bbp532">>, <<"bbp700">>, <<"beta_backscattering">>} :
       x \in params
has_nitrate(params) == \E x \in {<<"nitrate">>, <<"ntra">>, <<"ntrate">>} : x \in params
has_ph(params) == <<"ph_in_situ_total">> \in params
has_cdom(params) == <<"cdom">> \in params

\* sum([...]) of booleans
Sum(flags) == Cardinality({i \in 1..Len(flags) : flags[i]})

\* if platform_family in ["DEEP", "DEEP ARVOR", "DEEP NINJA", "DEEP APEX"]
IsDeepFamily(family) ==
    family \in {<<"DEEP">>, <<"DEEP", " ", "ARVOR">>, <<"DEEP", " ", "NINJA">>,
                <<"DEEP", " ", "APEX">>}

\* if has_oxygen or has_optode: biogeochemical with another BGC variable,
\* else oxygen.
OxygenRuleMutant(params) == "oxygen"
OxygenRule(params) ==
    IF \/ has_chla(params)
       \/ has_backscatter(params)
       \/ has_nitrate(params)
       \/ has_ph(params)
       \/ has_cdom(params)
    THEN "biogeochemical"
    ELSE "oxygen"

classify_float_type(params, sensors, family) ==
    IF IsDeepFamily(family) THEN "deep"
    ELSE IF has_oxygen(params) \/ has_optode(sensors) THEN OxygenRule(params)
    ELSE IF Sum(<<has_chla(params), has_backscatter(params), has_nitrate(params),
                  has_ph(params)>>) >= 2
    THEN "biogeochemical"
    ELSE IF \/ has_chla(params)
            \/ has_backscatter(params)
            \/ has_nitrate(params)
            \/ has_ph(params)
            \/ has_cdom(params)
    THEN "biogeochemical"
    ELSE IF Cardinality(params) > 3 \/ \E x \in sensors : Contains(x, "bio")
    THEN "biogeochemical"
    ELSE "core"

ClassifyFloatType ==
    Return(classify_float_type(hargs.params, hargs.sensors, hargs.family))

\* int(x) of a quotient n/d with d > 0: rounding towards zero.
Trunc(n, d) == IF n >= 0 THEN n \div d ELSE 0 - ((0 - n) \div d)

Min(a, b) == IF a <= b THEN a ELSE b
Max(a, b) == IF a >= b THEN a ELSE b

\* Platform types, upper-cased and stripped, as pieces of text.
Platforms ==
    {<<"APEX">>, <<"NAVIS">>, <<"SOLO-II">>, <<"ARVOR">>, <<"PROVOR">>,
     <<"DEEP ARVOR">>}

ALKALINE_LAST_YEAR == 2010

\* Chemistry detection: a pre-2011 APEX counts as alkaline; launch is the
\* launch year of the metadata, if metadata and launch date are there.
Chemistry(platform, launch) ==
    IF launch.some /\ platform = <<"APEX">> /\ launch.val <= ALKALINE_LAST_YEAR
    THEN "alkaline"
    ELSE "lithium"

\* Voltages are counted in hundredths of a volt; lithium_percent, which is
\* also given half a voltage, takes two-hundredths.
PerVolt == 100
Half(c) == c
Whole(c) == 2 * c

\* A segment of the curve: from volts*10 upwards, int(base + (v - from) * slope).
Segment(h, from, base, slope) ==
    base + Trunc((h - from * 2 * (PerVolt \div 10)) * slope, 2 * PerVolt)

\* lithium_percent(v), v = h/200 volts.
lithium_percent(h) ==
    IF h >= 2 * 14 * PerVolt THEN Min(100, Segment(h, 140, 90, 12))
    ELSE IF h >= 2 * 13 * PerVolt THEN Segment(h, 130, 75, 15)
    ELSE IF h >= 2 * 12 * PerVolt THEN Segment(h, 120, 55, 20)
    ELSE IF h >= 2 * 116 * (PerVolt \div 10) THEN Segment(h, 116, 40, 50)
    ELSE IF h >= 2 * 11 * PerVolt THEN Segment(h, 110, 15, 50)
    ELSE IF h >= 2 * 108 * (PerVolt \div 10) THEN Segment(h, 108, 5, 50)
    ELSE 0

\* deep_arvor_percent(v) = lithium_percent(v / 2)
deep_arvor_percent(c) == lithium_percent(Half(c))

\* max(0, min(100, int(100 * (v - 10.5) / 5.0)))
alkaline_percent(c) == Max(0, Min(100, Trunc(100 * (c - 105 * (PerVolt \div 10)), 5 * PerVolt)))

\* The estimate from a voltage reading.
FromVoltage(platform, chemistry, c) ==
    IF chemistry = "alkaline" THEN alkaline_percent(c)
    ELSE IF Contains(platform, "DEEP ARVOR") THEN deep_arvor_percent(c)
    ELSE lithium_percent(Whole(c))

\* typical = 280 if platform in ["APEX", "NAVIS", "SOLO-II"] else 220
typical(platform) ==
    IF platform \in {<<"APEX">>, <<"NAVIS">>, <<"SOLO-II">>} THEN 280 ELSE 220

\* The cycle-based fallback: an estimate only for a positive cycle number.
FromCycle(platform, cycle_number) ==
    IF cycle_number > 0
    THEN Some(Max(0, Min(100, Trunc(100 * (typical(platform) - cycle_number),
                                    typical(platform)))))
    ELSE None

estimate_battery_percent(platform, cycle_number, current_voltage, launch) ==
    IF current_voltage.some
    THEN Some(FromVoltage(platform, Chemistry(platform, launch), current_voltage.val))
    ELSE FromCycle(platform, cycle_number)

\* get_profile_stats calls the estimate with summary.get("cycle_number", 0).
EstimateBattery ==
    Return(estimate_battery_percent(hargs.platform,
                                    IF hargs.cycle.some THEN hargs.cycle.val ELSE 0,
                                    hargs.voltage, hargs.launch))

(* -------------------- ParquetConverter (converter.py) ------------------ *)
\* A stored PRES cell holds a value, the variable's fill value, or NaN.
Cells == {"value", "fill", "nan"}

\* xr.open_dataset masks the fill value of a variable to NaN.
Decode(cell) == IF cell = "fill" THEN "nan" ELSE cell

\* PRES in the dataset: of shape (n_prof, n_levels), of another shape, or
\* not there.
Shapes == {"ok", "wrong", "absent"}

\* get_2d_array("PRES"): the decoded array, or None.
get_2d_array(f) ==
    IF f.shape = "ok"
    THEN Some([i \in 1..f.n_prof |-> [j \in 1..f.n_levels |-> Decode(f.pres[i][j])]])
    ELSE [some |-> FALSE, val |-> <<>>]

\* get_value(arr, i, j): None for no array and for NaN, else the value.
get_valueMutant(arr, i, j) == IF arr.some THEN arr.val[i][j] ELSE "none"
get_value(arr, i, j) ==
    IF ~arr.some THEN "none"
    ELSE IF arr.val[i][j] = "nan" THEN "none"
    ELSE arr.val[i][j]

\* The inner loop from level j on (prof_idx = i - 1, level_idx = j - 1): a
\* level without pressure is skipped, any other appends its row.
RECURSIVE LevelRows(_, _, _, _)
LevelRows(arr, n_levels, i, j) ==
    IF j > n_levels THEN <<>>
    ELSE LET pres_val == get_value(arr, i, j)
             row == [prof_idx |-> i - 1, level |-> j - 1, pressure |-> pres_val]
         IN  (IF pres_val = "none" THEN <<>> ELSE <<row>>)
                \o LevelRows(arr, n_levels, i, j + 1)

\* The outer loop from profile i on.
RECURSIVE ProfileRows(_, _, _, _)
ProfileRows(arr, n_prof, n_levels, i) ==
    IF i > n_prof THEN <<>>
    ELSE LevelRows(arr, n_levels, i, 1) \o ProfileRows(arr, n_prof, n_levels, i + 1)

\* convert(prof_file, float_id): None for an empty dataset and for no rows,
\* else the rows are written and the path of the file returned.
convert(f) ==
    IF f.n_prof = 0 \/ f.n_levels = 0 THEN [path |-> FALSE, rows |-> <<>>]
    ELSE LET rows == ProfileRows(get_2d_array(f), f.n_prof, f.n_levels, 1)
         IN  [path |-> rows # <<>>, rows |-> rows]

Convert == Return(convert(hargs))

(* --------------- parse_metadata_file (netcdf_aggregate_parser.py) ------ *)
\* A string variable of the file: not there, or there with its text as
\* decoded and stripped ("" for a blank one).
NoVar == [present |-> FALSE, text |-> ""]
Var(t) == [present |-> TRUE, text |-> t]

\* extract_string(ds, var_name): None for a variable that is not there.
NoText == [some |-> FALSE, val |-> ""]
extract_string(v) == IF v.present THEN [some |-> TRUE, val |-> v.text] ELSE NoText

\* x or d, for an optional string x: None and "" give d.
OrElse(x, d) == IF x.some /\ x.val # "" THEN x.val ELSE d

\* Platform numbers a file can hold: a WMO number, or text that is no number.
PlatformNumbers == {NoVar, Var(""), Var("2902224"), Var("29O2224")}
DataCentres == {NoVar, Var(""), Var("IN")}

\* int(x): the number of a digit string (0 for the 0 of "or 0"); anything
\* else raises ValueError.
IsNumber(x) == x \in {"0", "2902224"}
ToInt(x) == IF x = "2902224" THEN 2902224 ELSE 0

NoMetadata ==
    [ok |-> FALSE,
     metadata |-> [float_id |-> 0, wmo_number |-> "", data_centre |-> "",
                   float_type |-> "unknown", status |-> "UNKNOWN"]]

\* parse_metadata_file(file_path, recent_profile_time): the FloatMetadata
\* built from the file, or None when building it raises.
parse_metadata_file(f, t) ==
    LET number == OrElse(extract_string(f.platform_number), "0")
    IN  IF ~IsNumber(number) THEN NoMetadata
        ELSE [ok |-> TRUE,
              metadata |->
                 [float_id    |-> ToInt(number),
                  wmo_number  |-> OrElse(extract_string(f.platform_number), ""),
                  data_centre |-> OrElse(extract_string(f.data_centre), ""),
                  float_type  |-> classify_float_type(f.params, f.sensors, f.family),
                  status      |-> determine_float_status(f.end, t)]]

ParseMetadata == Return(parse_metadata_file(hargs.file, hargs.age))

(* ------------- PgClient.batch_upload_data, column by column ------------ *)
\* The fields of FloatMetadata and FloatStatus: the required ones, and the
\* Optional ones, which may hold None.
MetaRequired == {"float_id", "wmo_number", "data_centre"}
MetaOptional ==
    {"status", "float_type", "project_name", "operating_institution", "pi_name",
     "platform_type", "platform_maker", "float_serial_no", "launch_date",
     "launch_lat", "launch_lon", "start_mission_date", "end_mission_date"}
StatusRequired == {"float_id"}
StatusOptional ==
    {"latitude", "longitude", "cycle_number", "battery_percent", "last_update",
     "last_depth", "last_temp", "last_salinity"}

\* The columns the statement can name in the two tables.
MetaColumns == MetaRequired \cup MetaOptional \cup {"updated_at"}
StatusColumns ==
    ((StatusRequired \cup StatusOptional) \ {"latitude", "longitude"})
        \cup {"location", "updated_at"}

\* model_dump(exclude_none=True): the dict of the fields that are not None.
model_dump(m) == [c \in {k \in DOMAIN m : m[k].some} |-> m[c]]

\* d[k] = v and d.pop(k, None)
SetKey(d, k, v) == [c \in DOMAIN d \cup {k} |-> IF c = k THEN v ELSE d[c]]
Pop(d, k) == [c \in DOMAIN d \ {k} |-> d[c]]

\* f"SRID=4326;POINT({status.longitude} {status.latitude})": the text of a
\* point, or a text with the word None in it, which ST_GeomFromEWKT
\* rejects.
NotAPoint == [some |-> TRUE, text |-> "POINT(None None)"]
point_wkt(status, t) ==
    IF status["longitude"].some /\ status["latitude"].some THEN Some(t) ELSE NotAPoint

\* INSERT INTO table (keys of data) VALUES (...) ON CONFLICT (float_id) DO
\* UPDATE SET col = EXCLUDED.col for every key of data but float_id: a new
\* row holds the values given and nothing in the other columns; a row in
\* conflict takes the values given and keeps its other columns.
UpsertColumns(table, columns, data) ==
    LET old == {r \in table : r["float_id"] = data["float_id"]}
    IN  IF old = {} THEN
            table \cup {[c \in columns |-> IF c \in DOMAIN data THEN data[c] ELSE None]}
        ELSE
            (table \ old) \cup
                {[c \in columns |->
                     IF c \in DOMAIN data \ {"float_id"} THEN data[c] ELSE r[c]] : r \in old}

\* batch_upload_data(metadata, status) on the tables the transaction sees,
\* at time t: the two dicts, the one statement, True; when the statement
\* is rejected nothing is written and False is returned.
metadata_data(metadata, t) == SetKey(model_dump(metadata), "updated_at", Some(t))
status_data(status, t) ==
    SetKey(SetKey(Pop(Pop(model_dump(status), "latitude"), "longitude"),
                  "location", point_wkt(status, t)),
           "updated_at", Some(t))

batch_upload_data(tables, metadata, status, t, how) ==
    IF how # "ok" \/ status_data(status, t)["location"] = NotAPoint THEN
        [tables |-> tables, success |-> FALSE]
    ELSE
        [tables  |-> [meta   |-> UpsertColumns(tables.meta, MetaColumns,
                                               metadata_data(metadata, t)),
                      status |-> UpsertColumns(tables.status, StatusColumns,
                                               status_data(status, t))],
         success |-> TRUE]

BatchUploadData ==
    Return(batch_upload_data(hargs.tables, hargs.metadata, hargs.status, 1, hargs.how))

(* --------------------------- specifications --------------------------- *)
IdleSync ==
    /\ disk = NoFile
    /\ pc = "idle"
    /\ op = "syncAll"
    /\ all_floats = {}
    /\ manifest = EmptyManifest
    /\ pending_floats = {}
    /\ float_ids_list = <<>>
    /\ task = <<>>
    /\ successful = <<>>
    /\ failed = <<>>
    /\ ret = NoReturn
    /\ budget = 0
    /\ disk0 = NoFile
    /\ rerun = FALSE
    /\ peer = NoPeer

IdleFetch ==
    /\ fpc = "off"
    /\ fileRes = [f \in Files |-> "pending"]
    /\ fret = FALSE

IdleRun ==
    /\ rpc = "off"
    /\ mode = "single"
    /\ skip_download = FALSE
    /\ float_ids_to_process = <<>>
    /\ next = 1
    /\ processed_count = 0
    /\ process_failed = 0
    /\ download_failed = 0
    /\ total_floats = 0
    /\ successful_float_ids = <<>>
    /\ failed_float_ids_list = <<>>
    /\ store = EmptyStore
    /\ conn = Begin(EmptyStore)
    /\ result = NoResult
    /\ commits = 0
    /\ trail = <<>>
    /\ devBudget = 0

vars == <<syncVars, fetchVars, runVars, callVars, peerVars>>

\* A fresh staging directory: no manifest file, no call made yet.
InitSync == IdleSync /\ IdleFetch /\ IdleRun /\ IdleCall

NextMany ==
    \/ Acquire
    \/ \E f \in Inputs : FetchReturns(f)
    \/ \E f \in Inputs : FetchRaises(f)
    \/ GatherReturns

NextSync ==
    \/ \E k \in Ops : StartSync(k)
    \/ IndexFails
    \/ \E index \in SUBSET Floats : IndexArrives(index)
    \/ NextMany
    \/ Merge
    \/ SaveOpen
    \/ SaveWrite
    \/ SaveClose

SpecSync == InitSync /\ [][NextSync]_vars

\* _sync_floats_concurrent called on a set of floats: a small set, any
\* number of whose fetches may fail, or a set larger than the cap, one of
\* whose fetches may fail.
ManySizes ==
    (0..SmallMany) \cup
    ((MAX_CONCURRENT_DOWNLOADS + 1)..(MAX_CONCURRENT_DOWNLOADS + Extra))

InitMany ==
    /\ disk = NoFile
    /\ pc = "gather"
    /\ op = "syncAll"
    /\ \E n \in ManySizes :
          /\ float_ids_list = Ascending(n)
          /\ all_floats = 1..n
          /\ pending_floats = 1..n
          /\ task = [f \in 1..n |-> "waiting"]
          /\ budget = IF n <= SmallMany THEN n ELSE 1
    /\ manifest = EmptyManifest
    /\ successful = <<>>
    /\ failed = <<>>
    /\ ret = NoReturn
    /\ disk0 = NoFile
    /\ rerun = FALSE
    /\ peer = NoPeer
    /\ IdleFetch
    /\ IdleRun
    /\ IdleCall

SpecMany == InitMany /\ [][NextMany]_vars

\* One call of ArgoSyncWorker.sync.
InitFetch ==
    /\ IdleSync
    /\ fpc = "call"
    /\ fileRes = [f \in Files |-> "pending"]
    /\ fret = FALSE
    /\ IdleRun
    /\ IdleCall

NextFetch ==
    \/ FetchCall
    \/ FetchCallRaises
    \/ \E file \in Files, o \in FileOutcomes : FileDone(file, o)
    \/ FetchReturn

SpecFetch == InitFetch /\ [][NextFetch]_vars

NextSave ==
    \/ NextSync
    \/ Crash

SpecSave == InitSync /\ [][NextSave]_vars

\* One invocation of main.sync; float 1 may have its two rows in the store
\* from an earlier invocation.
InitRun ==
    /\ IdleSync
    /\ IdleFetch
    /\ rpc = "start"
    /\ mode = "single"
    /\ skip_download = FALSE
    /\ float_ids_to_process = <<>>
    /\ next = 1
    /\ processed_count = 0
    /\ process_failed = 0
    /\ download_failed = 0
    /\ total_floats = 0
    /\ successful_float_ids = <<>>
    /\ failed_float_ids_list = <<>>
    /\ \E old \in {{}, {Row(1, 0)}} :
          /\ store = [meta |-> old, status |-> old, log |-> <<>>]
          /\ conn = Begin([meta |-> old, status |-> old, log |-> <<>>])
    /\ result = NoResult
    /\ commits = 0
    /\ trail = <<>>
    /\ devBudget = 0
    /\ IdleCall

NextRun ==
    \/ \E m \in Modes : DownloadRaises(m)
    \/ \E m \in Modes, skip \in BOOLEAN, n \in WorkSizes, df \in 0..MaxDownloadFailed :
          DownloadBatch(m, skip, n, df)
    \/ \E skip \in BOOLEAN, got \in BOOLEAN : DownloadSingle(skip, got)
    \/ ClientsFail
    \/ ClientsReady
    \/ \E how \in FloatOutcomes, logOk \in BOOLEAN : ProcessFloat(how, logOk)
    \/ \E logOk \in BOOLEAN : Finish(logOk)

SpecRun == InitRun /\ [][NextRun]_vars

\* One call of Helper.determine_float_status: any END_MISSION_DATE, no
\* profile time or one from a day ahead of now to MaxAgeDays back.
Ages == (0 - PartsPerDay)..(MaxAgeDays * PartsPerDay)

InitStatus ==
    /\ IdleSync
    /\ IdleFetch
    /\ IdleRun
    /\ hpc = "call"
    /\ \E end \in EndDates, t \in {None} \cup {Some(a) : a \in Ages} :
          hargs = [end |-> end, age |-> t]
    /\ hret = None

NextStatus == DetermineStatus

SpecStatus == InitStatus /\ [][NextStatus]_vars

\* One call of Helper.classify_float_type on a metadata file listing up to
\* MaxParams parameters.
ParamLists == {ps \in SUBSET ParamNames : Cardinality(ps) <= MaxParams}

InitClassify ==
    /\ IdleSync
    /\ IdleFetch
    /\ IdleRun
    /\ hpc = "call"
    /\ \E ps \in ParamLists, ss \in SUBSET SensorNames, fam \in Families :
          hargs = [params |-> ps, sensors |-> ss, family |-> fam]
    /\ hret = None

NextClassify == ClassifyFloatType

SpecClassify == InitClassify /\ [][NextClassify]_vars

\* One battery estimate: with a voltage reading on the grid of hundredths
\* of a volt, or without one and with any cycle number or none.
Voltages == MinCentiVolt..MaxCentiVolt
Cycles == {None} \cup {Some(n) : n \in 0..MaxCycle}
Launches == {None} \cup {Some(y) : y \in (ALKALINE_LAST_YEAR - 1)..(ALKALINE_LAST_YEAR + 1)}

InitBattery ==
    /\ IdleSync
    /\ IdleFetch
    /\ IdleRun
    /\ hpc = "call"
    /\ \E pl \in Platforms, l \in Launches :
          \/ \E c \in Voltages, n \in {None, Some(1)} :
                hargs = [platform |-> pl, launch |-> l, voltage |-> Some(c), cycle |-> n]
          \/ \E n \in Cycles :
                hargs = [platform |-> pl, launch |-> l, voltage |-> None, cycle |-> n]
    /\ hret = None

NextBattery == EstimateBattery

SpecBattery == InitBattery /\ [][NextBattery]_vars

\* One call of ParquetConverter.convert on a profile file of up to MaxProf
\* profiles of up to MaxLevels levels, up to MaxInvalid of whose PRES cells
\* hold no value.
InitConvert ==
    /\ IdleSync
    /\ IdleFetch
    /\ IdleRun
    /\ hpc = "call"
    /\ \E n \in 0..MaxProf, l \in 0..MaxLevels, sh \in Shapes :
          \E bad \in SUBSET ((1..n) \X (1..l)) :
             /\ Cardinality(bad) <= MaxInvalid
             /\ \E kind \in [bad -> Cells \ {"value"}] :
                   hargs = [n_prof |-> n, n_levels |-> l, shape |-> sh,
                            pres |-> [i \in 1..n |-> [j \in 1..l |->
                                        IF <<i, j>> \in bad THEN kind[<<i, j>>]
                                        ELSE "value"]]]
    /\ hret = None

NextConvert == Convert

SpecConvert == InitConvert /\ [][NextConvert]_vars

\* One call of parse_metadata_file on a metadata file with any state of its
\* platform number and data centre.
InitMeta ==
    /\ IdleSync
    /\ IdleFetch
    /\ IdleRun
    /\ hpc = "call"
    /\ \E pn \in PlatformNumbers, dc \in DataCentres, end \in EndDates,
          fam \in Families, ps \in {{}, {<<"pres">>, <<"temp">>, <<"psal">>}},
          t \in {None, Some(10 * PartsPerDay), Some(MaxAgeDays * PartsPerDay)} :
          hargs = [file |-> [platform_number |-> pn, data_centre |-> dc, end |-> end,
                             family |-> fam, params |-> ps, sensors |-> {}],
                   age |-> t]
    /\ hret = None

NextMeta == ParseMetadata

SpecMeta == InitMeta /\ [][NextMeta]_vars

\* One call of batch_upload_data for float 1 with the record of a new
\* extraction, some of whose Optional fields are None. The tables are empty
\* or hold the rows an earlier call wrote from an earlier extraction; the
\* values of the two extractions are told apart as 0 and 1.
Extraction(fields, g, absent) ==
    [c \in fields |-> IF c \in absent THEN None
                      ELSE IF c = "float_id" THEN Some(1) ELSE Some(g)]

Absences(fields) == {N \in SUBSET fields : Cardinality(N) <= MaxAbsent}

EmptyTables == [meta |-> {}, status |-> {}]

Earlier ==
    {EmptyTables} \cup
    {batch_upload_data(EmptyTables,
                       Extraction(MetaRequired \cup MetaOptional, 0, N),
                       Extraction(StatusRequired \cup StatusOptional, 0, N),
                       0, "ok").tables :
        N \in Absences((MetaOptional \cup StatusOptional) \ {"latitude", "longitude"})}

InitUpsert ==
    /\ IdleSync
    /\ IdleFetch
    /\ IdleRun
    /\ hpc = "call"
    /\ \E tables \in Earlier, N \in Absences(MetaOptional \cup StatusOptional),
          how \in UploadOutcomes :
          hargs = [tables   |-> tables,
                   metadata |-> Extraction(MetaRequired \cup MetaOptional, 1, N),
                   status   |-> Extraction(StatusRequired \cup StatusOptional, 1, N),
                   how      |-> how]
    /\ hret = None

NextUpsert == BatchUploadData

SpecUpsert == InitUpsert /\ [][NextUpsert]_vars

\* A batch run of main.sync after any number of earlier syncAll/update
\* calls: the sync worker runs until main.sync takes the work set.
InitWeekly ==
    /\ IdleSync
    /\ IdleFetch
    /\ rpc = "start"
    /\ mode = "single"
    /\ skip_download = FALSE
    /\ float_ids_to_process = <<>>
    /\ next = 1
    /\ processed_count = 0
    /\ process_failed = 0
    /\ download_failed = 0
    /\ total_floats = 0
    /\ successful_float_ids = <<>>
    /\ failed_float_ids_list = <<>>
    /\ store = EmptyStore
    /\ conn = Begin(EmptyStore)
    /\ result = NoResult
    /\ commits = 0
    /\ trail = <<>>
    /\ devBudget = 0
    /\ IdleCall

NextWeekly ==
    \/ rpc = "start" /\ NextSync
    \/ \E m \in Modes, skip \in BOOLEAN : DownloadPhase(m, skip)

SpecWeekly == InitWeekly /\ [][NextWeekly]_vars

\* Two invocations of syncAll/update against one manifest path, each
\* making one call on an index that lists one float, under a deployment
\* that serializes invocations or one that does not.
InitShared ==
    /\ disk = NoFile
    /\ pc = "idle"
    /\ op = "syncAll"
    /\ all_floats = {}
    /\ manifest = EmptyManifest
    /\ pending_floats = {}
    /\ float_ids_list = <<>>
    /\ task = <<>>
    /\ successful = <<>>
    /\ failed = <<>>
    /\ ret = NoReturn
    /\ budget = 0
    /\ disk0 = NoFile
    /\ rerun = FALSE
    /\ \E serial \in BOOLEAN : peer = [locals |-> IdleLocals, serial |-> serial]
    /\ IdleFetch
    /\ IdleRun
    /\ IdleCall

NextShared ==
    \/ \E k \in Ops : pc = "idle" /\ StartSync(k)
    \/ IndexFails
    \/ \E f \in Floats : IndexArrives({f})
    \/ NextMany
    \/ Merge
    \/ SaveOpen
    \/ SaveWrite
    \/ SaveClose
    \/ Switch

SpecShared == InitShared /\ [][NextShared]_vars

\* _sync_floats_concurrent under the scheduling the event loop and the
\* request timeout give: a task waiting for a free slot is woken, a fetch
\* under way returns or raises, and gather returns once it can.
FairMany ==
    /\ WF_vars(Acquire)
    /\ WF_vars(\E f \in Inputs : FetchReturns(f) \/ FetchRaises(f))
    /\ WF_vars(GatherReturns)

\* The inputs termination is checked on: the small ones and the smallest
\* one larger than the cap.
OverCap == MAX_CONCURRENT_DOWNLOADS + 1

InitManyLive ==
    /\ InitMany
    /\ Len(float_ids_list) \in (0..SmallMany) \cup {OverCap}

SpecManyLive == InitManyLive /\ [][NextMany]_vars /\ FairMany

(* ------------------------------ the claims ----------------------------- *)
OnDisk == LoadManifest(disk).m
AtStart == LoadManifest(disk0).m
Returned == pc = "done" /\ ret.kind = "summary"
Fetched == {f \in Inputs : task[f] # "waiting"}

\* C1: when a syncAll call has returned, the downloaded and failed lists of
\* the persisted manifest share no identifier, and every identifier that was
\* pending when the call began (in the index, not in downloaded) is in
\* exactly one of the two lists.
C1_FullSyncPartition ==
    (Returned /\ op = "syncAll") =>
        /\ Range(OnDisk.downloaded) \cap Range(OnDisk.failed) = {}
        /\ \A f \in all_floats \ Range(AtStart.downloaded) :
              (f \in Range(OnDisk.downloaded)) # (f \in Range(OnDisk.failed))

\* A syncAll call has returned in which a float listed as failed before was
\* downloaded, so that the merge had to take it out of failed.
C1_Witness ==
    /\ Returned
    /\ op = "syncAll"
    /\ Range(AtStart.failed) \cap Range(successful) # {}

\* C2, as stated: a call that repeats the call before it (same operation,
\* same index, manifest untouched) issues no per-float fetch and leaves the
\* persisted manifest as it was.
C2_RerunIsNoOp ==
    (Returned /\ rerun) =>
        /\ Fetched = {}
        /\ disk = disk0

\* C2, amended: a call that repeats the call before it never fetches a float
\* that is in downloaded and never lists an identifier twice; it fetches
\* exactly the floats of the index that the manifest lists as failed, and
\* when there is none it issues no per-float fetch and leaves the persisted
\* manifest as it was.
C2_RerunRefetchesOnlyFailed ==
    (Returned /\ rerun) =>
        /\ Fetched \cap Range(AtStart.downloaded) = {}
        /\ NoDup(OnDisk.downloaded)
        /\ NoDup(OnDisk.failed)
        /\ Fetched = all_floats \cap Range(AtStart.failed)
        /\ (Fetched = {}) => (disk = disk0)

\* A repeated call has returned that fetched a float again and, this time,
\* downloaded it, next to a float that was downloaded before and left alone.
C2_Witness ==
    /\ Returned
    /\ rerun
    /\ Range(successful) # {}
    /\ Range(AtStart.downloaded) \cap all_floats # {}

\* C3: when _sync_floats_concurrent returns, every input float was fetched
\* to its end whatever happened to the others, a float is in successful
\* exactly when its own fetch returned True and in failed exactly when its
\* own fetch returned False or raised, and the two lists hold every input
\* once and nothing else.
C3_FailureIsolated ==
    (pc = "collected") =>
        /\ \A f \in pending_floats : task[f] \in {"ret_true"} \cup FaultStates
        /\ \A f \in pending_floats :
              /\ (f \in Range(successful)) <=> (task[f] = "ret_true")
              /\ (f \in Range(failed)) <=> (task[f] \in FaultStates)
        /\ Range(successful) \cup Range(failed) = pending_floats
        /\ Len(successful) + Len(failed) = Cardinality(pending_floats)

\* The call has returned after one fetch raised an Exception, another ended
\* with an exception gather kept, and a float after them was downloaded.
C3_Witness ==
    /\ pc = "collected"
    /\ \E f, g, h \in pending_floats :
          /\ task[f] = "caught"
          /\ task[g] = "escaped"
          /\ task[h] = "ret_true"
          /\ h > f
          /\ h > g

\* C4: never more than MAX_CONCURRENT_DOWNLOADS floats are inside self.sync.
C4_AtMostCapInFlight == Cardinality(Running) <= MAX_CONCURRENT_DOWNLOADS

\* The cap is reached while a float is still waiting for a slot.
C4_Witness ==
    /\ Cardinality(Running) = MAX_CONCURRENT_DOWNLOADS
    /\ Waiting # {}

\* C5: sync returns only once the four requests have ended, and returns
\* True exactly when at least one of them delivered its file.
C5_FetchTrueIffOneFileOk ==
    (fpc = "returned") =>
        /\ \A file \in Files : fileRes[file] \in FileOutcomes
        /\ fret <=> (\E file \in Files : fileRes[file] = "ok")
        /\ (\A file \in Files : fileRes[file] = "404") => ~fret

\* sync returned True with a single file delivered, the other requests
\* having met a 404, another status and a transport error.
C5_Witness ==
    /\ fpc = "returned"
    /\ fret
    /\ fileRes["prof"] = "ok"
    /\ fileRes["meta"] = "404"
    /\ fileRes["tech"] = "http_error"
    /\ fileRes["Rtraj"] = "error"

\* C6, as stated: after the process has died during a call that began with
\* a readable manifest file, a later load reads the manifest the call began
\* with or the one it was saving.
C6_SaveIsAtomic ==
    (pc = "done" /\ ret.kind = "crashed" /\ disk0.exists /\ LoadManifest(disk0).ok) =>
        /\ LoadManifest(disk).ok
        /\ OnDisk \in {AtStart, manifest}

\* What main.sync has returned from the processing phase.
Handled == Len(trail)
Ended(e) == rpc = "returned" /\ result.exit = e
Errors == {i \in 1..Len(trail) : trail[i] \in ErrorOutcomes}

\* C7: upsertFloat is all-or-nothing for one float. In every state of the
\* committed store a float has the metadata row written by an upsert
\* exactly when it has the status row written by the same upsert, and the
\* metadata row of an upsert whose status half was rejected is never in the
\* committed store.
C7_UpsertAllOrNothing ==
    /\ {<<r.float_id, r.gen>> : r \in store.meta} =
       {<<r.float_id, r.gen>> : r \in store.status}
    /\ \A i \in 1..Len(trail) :
          trail[i] = "status_rejected" =>
             Row(float_ids_to_process[i], 1) \notin store.meta

\* A run has committed a later float's rows after the status half of an
\* earlier float's upsert was rejected.
C7_Witness ==
    /\ Ended("finish")
    /\ \E i \in 1..Len(trail) : trail[i] = "status_rejected"
    /\ \E r \in store.meta : r.gen = 1

\* C8: a batch run has committed once for every full ten of handled floats
\* (processed or failed) before it takes the next float, and once more when
\* it returns; a single-float run that returns from the processing phase
\* has committed exactly once.
C8_CommitCadence ==
    /\ (Batch(mode) /\ rpc = "loop") =>
          commits = (processed_count + process_failed) \div CommitEvery
    /\ (Batch(mode) /\ Ended("finish")) =>
          commits = ((processed_count + process_failed) \div CommitEvery) + 1
    /\ (~Batch(mode) /\ (Ended("finish") \/ Ended("failure"))) => commits = 1

\* C9: whenever main.sync has returned, on any of its return statements,
\* the processing log holds exactly one entry of this invocation, and a
\* single-float run that returned failure left a FAILED entry.
C9_OneLogEntryPerInvocation ==
    rpc = "returned" =>
       /\ Len(store.log) = 1
       /\ (~Batch(mode) /\ ~result.success) => store.log[1].status = "FAILED"

\* C10: in a batch run that got to the processing phase and returned, every
\* float of the work set was handled and the failure count is the number of
\* floats that met an error; a single-float run that met an error has
\* returned a failure result straight from the handler, with nothing
\* handled after it.
C10_ErrorIsolation ==
    /\ (Batch(mode) /\ rpc = "loop") => process_failed = Cardinality(Errors)
    /\ (Batch(mode) /\ rpc = "returned" /\ Handled > 0) =>
          /\ Ended("finish")
          /\ Handled = Len(float_ids_to_process)
          /\ result.process_failed = Cardinality(Errors)
    /\ (~Batch(mode) /\ Errors # {}) =>
          /\ Ended("failure")
          /\ ~result.success
          /\ Handled = 1

\* A batch run has returned after a float met an error and a later float
\* was processed.
C10_Witness ==
    /\ Batch(mode)
    /\ Ended("finish")
    /\ \E i, j \in 1..Len(trail) :
          i < j /\ trail[i] \in ErrorOutcomes /\ trail[j] = "ok"
    /\ float_ids_to_process[Len(trail)] \in Range(successful_float_ids)

\* C11: a batch run that returned reports success exactly when it counted a
\* float as processed or reports no failure at all (no failed download, no
\* failed float); a single-float run that returned reports success exactly
\* when it reports no failure.
C11_SuccessReporting ==
    rpc = "returned" =>
       /\ Batch(mode) =>
             (result.success <=>
                \/ result.processed > 0
                \/ result.download_failed + result.process_failed = 0)
       /\ ~Batch(mode) =>
             (result.success <=>
                result.download_failed + result.process_failed = 0)

NoLocation == {i \in 1..Len(trail) : trail[i] = "no_location"}
Counted == {i \in 1..Len(trail) : trail[i] \notin ErrorOutcomes}

\* C12: a float whose status has no position is never upserted: neither the
\* open transaction nor the committed store holds a row this run wrote for
\* it, it is not in the failed list, and the processed count includes it
\* while the failed count does not.
C12_NoLocationSkipped ==
    /\ \A i \in NoLocation :
          LET r == Row(float_ids_to_process[i], 1)
          IN  /\ r \notin conn.meta \cup conn.status
              /\ r \notin store.meta \cup store.status
              /\ float_ids_to_process[i] \notin Range(failed_float_ids_list)
    /\ processed_count = Cardinality(Counted)
    /\ process_failed = Cardinality(Errors)

\* A batch run has returned with a position-less float counted as processed
\* next to a float that was upserted and committed.
C12_Witness ==
    /\ Ended("finish")
    /\ Batch(mode)
    /\ NoLocation # {}
    /\ result.processed = Len(trail)
    /\ result.processed >= 2
    /\ \E r \in store.meta : r.gen = 1

\* C13: determine_float_status returns INACTIVE whenever an end-of-mission
\* date is set, whatever the age of the latest profile; otherwise, with a
\* profile time, ACTIVE below 45 days of age, INACTIVE from 45 to below 540
\* days and DEAD from 540 days on; with neither, UNKNOWN.
C13_StatusRule ==
    (hpc = "returned") =>
       LET a == hargs.age.val
       IN  /\ hargs.end = "set" => hret = "INACTIVE"
           /\ (hargs.end # "set" /\ hargs.age.some) =>
                 /\ (a < 45 * PartsPerDay) => hret = "ACTIVE"
                 /\ (a >= 45 * PartsPerDay /\ a < 540 * PartsPerDay) => hret = "INACTIVE"
                 /\ (a >= 540 * PartsPerDay) => hret = "DEAD"
           /\ (hargs.end # "set" /\ ~hargs.age.some) => hret = "UNKNOWN"

\* The call returned INACTIVE for a float with an end-of-mission date whose
\* latest profile is ten days old.
C13_Witness ==
    /\ hpc = "returned"
    /\ hargs.end = "set"
    /\ hargs.age = Some(10 * PartsPerDay)
    /\ hret = "INACTIVE"

\* C14: classify_float_type returns deep for every float whose platform
\* family contains "DEEP", whatever its parameters and sensors.
C14_DeepDominates ==
    (hpc = "returned" /\ Contains(hargs.family, "DEEP")) => hret = "deep"

\* The other BGC variables of the cascade, and its oxygen test.
OtherBgc(params) ==
    \/ has_chla(params)
    \/ has_backscatter(params)
    \/ has_nitrate(params)
    \/ has_ph(params)
    \/ has_cdom(params)
Oxygen(params, sensors) == has_oxygen(params) \/ has_optode(sensors)

\* C15: for a float whose family has no "DEEP" in it the type is that of
\* the cascade: with oxygen (a doxy channel or an optode sensor),
\* biogeochemical if another BGC variable is present and oxygen otherwise;
\* without oxygen, biogeochemical if a BGC variable is present, or more than
\* three parameters are listed, or a sensor name contains "bio"; otherwise
\* core.
C15_Cascade ==
    (hpc = "returned" /\ ~Contains(hargs.family, "DEEP")) =>
       LET ps == hargs.params
           ss == hargs.sensors
       IN  /\ (Oxygen(ps, ss) /\ OtherBgc(ps)) => hret = "biogeochemical"
           /\ (Oxygen(ps, ss) /\ ~OtherBgc(ps)) => hret = "oxygen"
           /\ (~Oxygen(ps, ss) /\
                 (OtherBgc(ps) \/ Cardinality(ps) > 3
                    \/ \E x \in ss : Contains(x, "bio"))) => hret = "biogeochemical"
           /\ (~Oxygen(ps, ss) /\ ~OtherBgc(ps) /\ Cardinality(ps) <= 3
                 /\ ~\E x \in ss : Contains(x, "bio")) => hret = "core"

\* Parameters {doxy, chla} and no sensor gave biogeochemical.
C15_Witness ==
    /\ hpc = "returned"
    /\ hargs.params = {<<"doxy">>, <<"chla">>}
    /\ hargs.sensors = {}
    /\ hargs.family = <<"FLOAT">>
    /\ hret = "biogeochemical"

\* The estimate of a call that was given a voltage, and that voltage in
\* hundredths of a volt.
GivenVoltage == hpc = "returned" /\ hargs.voltage.some
Lithium ==
    /\ Chemistry(hargs.platform, hargs.launch) = "lithium"
    /\ ~Contains(hargs.platform, "DEEP ARVOR")

\* C16: on the lithium curve a voltage of 14.0 V or more gives 90..100,
\* 13.0 to below 14.0 V gives 75..89, 12.0 to below 13.0 V gives 55..74,
\* 11.6 to below 12.0 V gives 40..54, 11.0 to below 11.6 V gives 15..39,
\* 10.8 to below 11.0 V gives 5..14, and a voltage below 10.8 V gives 0.
C16_LithiumSegments ==
    (GivenVoltage /\ Lithium) =>
       LET c == hargs.voltage.val
           r == hret.val
       IN  /\ hret.some
           /\ (c >= 1400) => (r >= 90 /\ r <= 100)
           /\ (c >= 1300 /\ c < 1400) => (r >= 75 /\ r < 90)
           /\ (c >= 1200 /\ c < 1300) => (r >= 55 /\ r < 75)
           /\ (c >= 1160 /\ c < 1200) => (r >= 40 /\ r < 55)
           /\ (c >= 1100 /\ c < 1160) => (r >= 15 /\ r < 40)
           /\ (c >= 1080 /\ c < 1100) => (r >= 5 /\ r < 15)
           /\ (c < 1080) => r = 0

\* C17: for a fixed platform and chemistry the estimate never falls when
\* the voltage rises, stated for each voltage of the grid against the one a
\* hundredth of a volt below it, and every estimate lies in 0..100.
C17_MonotoneInVoltage ==
    GivenVoltage =>
       /\ hret.some
       /\ hret.val >= 0
       /\ hret.val <= 100
       /\ (hargs.voltage.val > MinCentiVolt) =>
             FromVoltage(hargs.platform, Chemistry(hargs.platform, hargs.launch),
                         hargs.voltage.val - 1) <= hret.val

\* The nominal lifetime of the statement, and its estimate from a cycle
\* count: floor(100 * (1 - cycle/nominal)) clamped to 0..100.
Nominal(platform) ==
    IF platform \in {<<"APEX">>, <<"NAVIS">>, <<"SOLO-II">>} THEN 280 ELSE 220
CycleEstimate(platform, n) ==
    Max(0, Min(100, (100 * (Nominal(platform) - n)) \div Nominal(platform)))

\* C18: without a voltage reading the estimate is the cycle-count estimate
\* for every cycle count that is available, and absent only when the cycle
\* count is not available either.
C18_CycleFallback ==
    (hpc = "returned" /\ ~hargs.voltage.some) =>
       /\ hargs.cycle.some =>
             hret = Some(CycleEstimate(hargs.platform, hargs.cycle.val))
       /\ ~hargs.cycle.some => hret = None

\* The (profile, level) pairs of the file, 0-based, whose pressure is there
\* and is a value.
ValidPairs ==
    IF hargs.shape # "ok" THEN {}
    ELSE {<<i - 1, j - 1>> : <<i, j>> \in
            {q \in (1..hargs.n_prof) \X (1..hargs.n_levels) :
               hargs.pres[q[1]][q[2]] = "value"}}

Missing(v) == ~v.present \/ v.text = ""

\* C20: parse_metadata_file returns no metadata for a file whose platform
\* number or data centre is missing, so that no FloatMetadata with a
\* placeholder identifier, an empty WMO number or an empty data centre is
\* ever returned.
C20_RequiredFields ==
    (hpc = "returned") =>
       /\ (Missing(hargs.file.platform_number) \/ Missing(hargs.file.data_centre))
             => ~hret.ok
       /\ hret.ok =>
             /\ hret.metadata.float_id # 0
             /\ hret.metadata.wmo_number # ""
             /\ hret.metadata.data_centre # ""

\* C21, as stated: an identifier that is in manifest.failed when a
\* syncAll/update call starts is not fetched during that call.
C21_FailedNeverRefetched ==
    (pc # "idle") => Fetched \cap Range(AtStart.failed) = {}

\* C21, amended: a call that has returned fetched an identifier that was in
\* manifest.failed when it started exactly when the index of that call
\* lists the identifier and manifest.downloaded did not; each such
\* identifier had one task, which ran to its end once.
C21_FailedRefetchedWhenIndexed ==
    Returned =>
       /\ \A f \in Range(AtStart.failed) :
             (f \in Fetched) <=> (f \in all_floats /\ f \notin Range(AtStart.downloaded))
       /\ NoDup(float_ids_list)
       /\ \A f \in Fetched : task[f] \in {"ret_true"} \cup FaultStates

\* A call has returned that fetched one float listed as failed before, and
\* left alone another failed float its index did not list.
C21_Witness ==
    /\ Returned
    /\ \E f, g \in Range(AtStart.failed) :
          /\ f \in Fetched
          /\ g \notin Fetched
          /\ g \notin all_floats

\* The row of float 1 in a table, and the value an extraction gives a
\* column.
RowOf(table) == CHOOSE r \in table : r["float_id"] = Some(1)
Existing == \E r \in hargs.tables.meta : r["float_id"] = Some(1)
Given(m, c) == IF c \in DOMAIN m THEN m[c] ELSE Some(1)

\* C22: when batch_upload_data has returned True for a float whose rows
\* existed, every column of its metadata row and of its status row but
\* float_id holds the value of the new record, a column the new record has
\* no value for holding none.
C22_UpsertSupersedes ==
    (hpc = "returned" /\ hret.success /\ Existing) =>
       /\ \A c \in MetaColumns \ {"float_id"} :
             RowOf(hret.tables.meta)[c] = Given(hargs.metadata, c)
       /\ \A c \in StatusColumns \ {"float_id"} :
             RowOf(hret.tables.status)[c] = Given(hargs.status, c)

\* What a call found and did, told from where it started: the floats
\* downloaded and failed before it, and the floats it downloaded and failed
\* to download.
Before == Range(AtStart.downloaded)
FailedBefore == Range(AtStart.failed)
NewlyDownloaded == {f \in all_floats \ Before : task[f] = "ret_true"}
NewlyFailed == {f \in all_floats \ Before : task[f] \in FaultStates}

\* The manifest and the summary of a full sync over the index all_floats.
AsFullSync ==
    /\ Range(OnDisk.downloaded) = Before \cup NewlyDownloaded
    /\ Range(OnDisk.failed) = (FailedBefore \ NewlyDownloaded) \cup NewlyFailed
    /\ NoDup(OnDisk.downloaded)
    /\ NoDup(OnDisk.failed)
    /\ (all_floats \subseteq Before) => disk = disk0
    /\ ret = Summary(Cardinality(all_floats),
                     Cardinality(Before \cup NewlyDownloaded),
                     Cardinality(NewlyDownloaded),
                     Cardinality(NewlyFailed))

C24_WeeklyWorkSetIsNew ==
    (mode = "update" /\ rpc \in {"clients", "returned"}) =>
        Range(float_ids_to_process) \cap Before = {}

\* Both invocations have returned a summary; the floats either of them
\* downloaded.
BothReturned == Returned /\ peer.locals.pc = "done" /\ peer.locals.ret.kind = "summary"
Downloads == Range(successful) \cup Range(peer.locals.successful)

\* C25: when invocations against one manifest path are serialized, every
\* float either of two invocations downloaded is in manifest.downloaded
\* once both have returned; when they are not, there is an interleaving
\* after which such a float is missing from it (C25_LostUpdate).
C25_SerializedKeepsDownloads ==
    (peer.serial /\ BothReturned) =>
        /\ LoadManifest(disk).ok
        /\ Downloads \subseteq Range(OnDisk.downloaded)

\* Two invocations that were not serialized have both returned, the manifest
\* file is whole, and a float one of them downloaded is not in its
\* downloaded list.
C25_LostUpdate ==
    /\ ~peer.serial
    /\ BothReturned
    /\ LoadManifest(disk).ok
    /\ disk.text = Serialize(manifest)
    /\ \E f \in Downloads : f \notin Range(OnDisk.downloaded)

\* The entry a run that finished wrote to the processing log.
Logged == store.log # <<>>
RunEntry == store.log[Len(store.log)]

\* C26: when a batch run has ended and its log entry is in the store, every
\* float the entry lists as successful has the metadata row and the status
\* row this run wrote in the committed store, whatever happened to the
\* floats after it.
C26_LoggedSuccessIsCommitted ==
    (Batch(mode) /\ Ended("finish") /\ Logged) =>
        \A f \in Range(RunEntry.successful_float_ids) :
            /\ Row(f, 1) \in store.meta
            /\ Row(f, 1) \in store.status

\* C27, as stated: the entry a batch run wrote is SUCCESS exactly when the
\* result it returned has success = true, and FAILED exactly when it has
\* success = false.
C27_LogStatusIsSuccessFlag ==
    (Batch(mode) /\ Ended("finish") /\ Logged) =>
        /\ (RunEntry.status = "SUCCESS") <=> result.success
        /\ (RunEntry.status = "FAILED") <=> ~result.success

\* C27, amended: the entry is SUCCESS exactly when the run counted no failed
\* download and no failed float, and FAILED otherwise; a SUCCESS entry goes
\* with success = true, a FAILED entry with success = true exactly when a
\* float was processed.
C27_LogStatusIsNoFailure ==
    (Batch(mode) /\ Ended("finish") /\ Logged) =>
        /\ RunEntry.status \in {"SUCCESS", "FAILED"}
        /\ (RunEntry.status = "SUCCESS") <=>
              (result.download_failed + result.process_failed = 0)
        /\ (RunEntry.status = "SUCCESS") => result.success
        /\ (RunEntry.status = "FAILED") => (result.success <=> result.processed > 0)

\* A batch run has returned success = true after one float failed and
\* another was processed, and its entry is FAILED.
C27_Witness ==
    /\ Batch(mode)
    /\ Ended("finish")
    /\ Logged
    /\ RunEntry.status = "FAILED"
    /\ result.success
    /\ result.process_failed > 0

\* A list starts with another.
StartsWith(s, t) == Len(t) <= Len(s) /\ \A i \in 1..Len(t) : s[i] = t[i]

\* C28: over any sequence of syncAll and update calls from the empty
\* manifest, each call that has ended left every identifier of
\* manifest.downloaded in place and only added to it, left neither list
\* with an identifier twice, and took an identifier out of manifest.failed
\* only when it put it into manifest.downloaded.
C28_ManifestMonotone ==
    (pc = "done") =>
        /\ LoadManifest(disk).ok
        /\ StartsWith(OnDisk.downloaded, AtStart.downloaded)
        /\ NoDup(OnDisk.downloaded)
        /\ NoDup(OnDisk.failed)
        /\ \A f \in FailedBefore \ Range(OnDisk.failed) :
              f \in Range(OnDisk.downloaded) \ Before

\* A call has ended that took a float out of manifest.failed, with another
\* float in manifest.downloaded from a call before it.
C28_Witness ==
    /\ pc = "done"
    /\ FailedBefore \ Range(OnDisk.failed) # {}
    /\ Before # {}
    /\ Len(OnDisk.downloaded) > Len(AtStart.downloaded)

\* C29: a batch run that has returned reports processed and process_failed
\* counts that add up to the size of its work set; one that went through
\* the loop handled every float of the work set once, in order, each counted
\* in one of the two counts, and the successful and failed lists of its log
\* entry share no id and hold ids of the work set only.
C29_EveryFloatCountedOnce ==
    /\ (Batch(mode) /\ rpc = "returned") =>
          result.processed + result.process_failed = Len(float_ids_to_process)
    /\ (Batch(mode) /\ Ended("finish")) =>
          /\ Handled = Len(float_ids_to_process)
          /\ Counted \cap Errors = {}
          /\ Counted \cup Errors = 1..Len(float_ids_to_process)
          /\ result.processed = Cardinality(Counted)
          /\ result.process_failed = Cardinality(Errors)
          /\ Range(failed_float_ids_list) = {float_ids_to_process[i] : i \in Errors}
          /\ Range(successful_float_ids) \subseteq
                {float_ids_to_process[i] : i \in Counted}
    /\ (Batch(mode) /\ Ended("finish") /\ Logged) =>
          /\ Range(RunEntry.successful_float_ids) \cap Range(RunEntry.failed_float_ids) = {}
          /\ Range(RunEntry.successful_float_ids) \cup Range(RunEntry.failed_float_ids)
                \subseteq Range(float_ids_to_process)
          /\ NoDup(RunEntry.successful_float_ids)
          /\ NoDup(RunEntry.failed_float_ids)

\* A batch run has ended and logged a work set in which one float was
\* upserted, one had no position and one failed.
C29_Witness ==
    /\ Batch(mode)
    /\ Ended("finish")
    /\ Logged
    /\ \E i, j, k \in 1..Len(trail) :
          /\ trail[i] = "ok"
          /\ trail[j] = "no_location"
          /\ trail[k] \in ErrorOutcomes
    /\ RunEntry.successful_float_ids # <<>>
    /\ RunEntry.failed_float_ids # <<>>

\* Every float of the input has had a slot, has finished and is in one of
\* the two lists _sync_floats_concurrent returns.
AllPlaced ==
    /\ pc = "collected"
    /\ \A f \in pending_floats :
          /\ task[f] \notin {"waiting", "running"}
          /\ (f \in Range(successful)) # (f \in Range(failed))

\* C30: _sync_floats_concurrent terminates: as long as every fetch under
\* way comes to an end, every float of the input, also of one larger than
\* the cap, gets a slot, finishes and is placed in successful or failed,
\* whatever the outcome of any fetch, exceptions included.
C30_SyncManyTerminates == <>AllPlaced

\* The call has returned on an input larger than the cap after a fetch
\* ended with an exception: the float that had to wait was placed too.
C30_Witness ==
    /\ AllPlaced
    /\ Len(float_ids_list) > MAX_CONCURRENT_DOWNLOADS
    /\ \E f \in pending_floats : task[f] \in {"caught", "escaped"}
    /\ task[float_ids_list[Len(float_ids_list)]] = "ret_true"

====
